---- MODULE Spec2Model ----
(***************************************************************************)
(* Model of the event-replay and aggregation engine of v4-liq-tracker:     *)
(*   - fetchAllSwapEvents   (src/src/lib/swapDataFetcher.ts)               *)
(*   - calculateDailyFees, aggregateByPeriod (src/src/lib/feesProcessor.ts)*)
(*   - processEventsIntoMap (src/src/lib/eventsProcessor.ts)               *)
(*   - useLiquidityHistory, combineDataWithFees, fillMissingDates          *)
(*                          (src/src/lib/liquidityHistoryUtils.ts)         *)
(*   - generateTicksFromPositions (src/src/lib/tickDataProcessor.ts)       *)
(*   - calculateLiquidityDelta    (src/src/lib/liquidityMath.ts)           *)
(*   - the depth chart's normalizedTickData                                *)
(*                          (src/src/components/LiquidityDepthChart.tsx)   *)
(*                                                                         *)
(* Time is in seconds since the epoch.  A JavaScript Date is modelled by   *)
(* its timestamp together with the offset tz of local time from UTC        *)
(* (seconds, daylight saving not modelled): the local calendar day of t    *)
(* is (t + tz) \div 86400 and the calendar fields are the civil date of    *)
(* that day number.                                                        *)
(* Floating-point numbers are modelled by integers: amounts are whole      *)
(* numbers, fees are held in units of 10^-6 USD (amount * feeTier) and     *)
(* liquidity deltas are multiples of 10^6 so that the display scaling      *)
(* (division by 10^6) is exact.  A numeric string is held as the number it *)
(* spells and a string that spells no number as NaN, the value Number()    *)
(* gives for it; NaN is absorbing in arithmetic and equal to nothing.      *)
(***************************************************************************)
EXTENDS Integers, Sequences, FiniteSets, TLC

VARIABLES
    \* ---- fetchAllSwapEvents: the remote service and the call's inputs
    service,           \* "honest": honours filter, order and limit; "mock": any page
    pool,              \* the pool's swap events held by the service, ascending
    startTime,         \* parameter startTime
    maxBatches,        \* parameter maxBatches
    batchSize,         \* parameter batchSize
    \* ---- fetchAllSwapEvents: locals of the call
    allEvents,
    currentStartTime,
    hasMoreData,
    batchCount,
    lastTimestamp,
    fpc,               \* position of the async function
    \* ---- fetchAllSwapEvents: what the caller and the service observe
    calls,             \* number of client.query calls issued
    requests,          \* the variables of those calls, in order: [startTime, first]
    pages,             \* the pages the service returned, in order
    result,            \* the promise returned: NoResult, or Resolved(array)
    thrown,            \* the error the promise rejected with, or NoError
    rejected,          \* the request the service failed: [call, error], or NoRejection
    \* ---- the host: offset of local time from UTC, in seconds
    tz,
    \* ---- calculateDailyFees and aggregateByPeriod
    feeSwaps,          \* argument swapEvents
    feeTier,           \* argument feeTier
    dailyFees,         \* what calculateDailyFees returned
    periodType,        \* argument periodType of aggregateByPeriod
    periodFees,        \* what aggregateByPeriod returned
    feesPc,            \* "input", "daily" or "aggregated"
    \* ---- useLiquidityHistory
    now,               \* Math.floor(Date.now() / 1000)
    liquidityEvents,   \* argument liquidityEvents
    swapEvents,        \* argument swapEvents
    poolData,          \* argument poolData
    dateMap,           \* what processEventsIntoMap returned
    dailyDataPoints,   \* what combineDataWithFees returned
    series,            \* what fillMissingDates returned: the hook's result
    rpc,               \* "input", "mapped", "combined" or "filled"
    \* ---- the tick charts of the pool page
    positions,         \* positionsData.LiquidityPosition
    poolInfo,          \* poolData.Pool_by_pk
    tickData,          \* what generateTicksFromPositions returned
    normalizedTickData, \* the depth chart's memo of that name
    processedTicks,    \* what calculateLiquidityDelta returned
    consoleOutput,     \* what generateTicksFromPositions wrote to the console
    tkpc,              \* "input", "ticks", "normalized" or "processed"
    \* ---- the pool page: its bulk fetches of swap events
    clock,             \* Math.floor(Date.now() / 1000)
    serviceSwaps,      \* the pool's swap events held by the service, ascending
    pagePoolData,      \* poolData.Pool_by_pk: [loaded, feeTier]
    timeRange,         \* state timeRange
    activeTab,         \* state activeTab
    fetches,           \* the calls of fetchLargeSwapDataset, in the order started
    isLoadingSwapData, \* state isLoadingSwapData
    loadingProgress,   \* state loadingProgress
    allSwapEvents,     \* state allSwapEvents
    chartData,         \* state chartData
    dataError          \* state dataError, NoError for null

fetchVars == <<service, pool, startTime, maxBatches, batchSize, allEvents,
               currentStartTime, hasMoreData, batchCount, lastTimestamp, fpc,
               calls, requests, pages, result, thrown, rejected>>

feesVars == <<feeSwaps, feeTier, dailyFees, periodType, periodFees, feesPc>>

reconVars == <<now, liquidityEvents, swapEvents, poolData, dateMap,
               dailyDataPoints, series, rpc>>

tickVars == <<positions, poolInfo, tickData, normalizedTickData, processedTicks,
              consoleOutput, tkpc>>

pageVars == <<clock, serviceSwaps, pagePoolData, timeRange, activeTab, fetches,
              isLoadingSwapData, loadingProgress, allSwapEvents, chartData, dataError>>

\* What a call of fetchAllSwapEvents leaves alone.
notFetchVars == <<tz, feesVars, reconVars, tickVars, pageVars>>

vars == <<fetchVars, tz, feesVars, reconVars, tickVars, pageVars>>

(***************************************************************************)
(* Bounds of the model.                                                    *)
(***************************************************************************)
MaxTs == 1            \* swap timestamps of the fetcher range over 0..MaxTs
MaxPool == 3          \* events held by the honest service
MaxBatches == 3       \* largest maxBatches tried
MaxBatchSize == 2     \* largest batchSize tried
MaxFeeSwaps == 3      \* swaps handed to calculateDailyFees
MaxLiqEvents == 2     \* liquidity events handed to useLiquidityHistory
MaxSwapEvents == 1    \* swap events handed to useLiquidityHistory
MaxPositions == 2     \* positions handed to the tick charts

(***************************************************************************)
(* Generic helpers.                                                        *)
(***************************************************************************)
Min(a, b) == IF a <= b THEN a ELSE b
Max(a, b) == IF a >= b THEN a ELSE b
Abs(x) == IF x < 0 THEN -x ELSE x

\* The floating-point value NaN, held as an integer no computation of the
\* model yields.
NaN == -999999999

\* a + b and a * b of JavaScript numbers
Plus(a, b) == IF a = NaN \/ b = NaN THEN NaN ELSE a + b
Times(a, b) == IF a = NaN \/ b = NaN THEN NaN ELSE a * b

Take(s, n) == SubSeq(s, 1, Min(n, Len(s)))

SeqsUpTo(S, n) == UNION {[1..k -> S] : k \in 0..n}

IsNonDecreasing(s) == \A i \in 1..(Len(s) - 1) : s[i] <= s[i + 1]

(***************************************************************************)
(* fetchAllSwapEvents                                                      *)
(***************************************************************************)
NoError == "no error"

\* The promise of the call: pending or rejected (NoResult), or resolved.
NoResult == [resolved |-> FALSE, events |-> <<>>]
Resolved(events) == [resolved |-> TRUE, events |-> events]

\* No request has failed.
NoRejection == [call |-> 0, error |-> NoError]
Errors == {"NetworkError", "GraphQLError"}

\* Timestamps a mock service may put in a record, 0 included.
Timestamps == 0..MaxTs

\* Block times of the events an indexer holds: positive.
PoolTimestamps == 1..(MaxTs + 1)

StartTimes == {1, 2}

\* A swap record as the fetcher reads it: identity and timestamp.
SwapOf(i, t) == [id |-> i, timestamp |-> t]

\* The event tables an indexer can hold: ids 1..n, ascending by timestamp
\* (several swaps may share a timestamp).
Pools ==
    {[i \in 1..Len(ts) |-> SwapOf(i, ts[i])] :
        ts \in {s \in SeqsUpTo(PoolTimestamps, MaxPool) : IsNonDecreasing(s)}}

\* Records a mock service may put in a page.
MockEvents == {SwapOf(0, t) : t \in Timestamps}

\* GET_POOL_SWAP_EVENTS against a service that honours the filter
\* timestamp >= startTime, the ascending order and the limit first.
HonestPage(start, first) ==
    Take(SelectSeq(pool, LAMBDA e : e.timestamp >= start), first)

\* line 63: the page is empty
IsEmptyPage(fetched) == Len(fetched) = 0

\* (mutant of IsStalled: the guard of lines 69-73 is missing)
IsStalledNever(last, fetched) == FALSE

\* line 69: the stall guard
IsStalled(last, fetched) == last = fetched[Len(fetched)].timestamp

\* (mutant of AppendEvents: the new page is put in front of the accumulator)
AppendEventsInFront(all, fetched) == fetched \o all

\* line 76
AppendEvents(all, fetched) == all \o fetched

\* (mutant of NextStartTime: the next page starts at the last timestamp seen)
NextStartTimeSame(last) == last

\* line 83
NextStartTime(last) == last + 1

\* lines 47-56: the variables of the page query
QueryVariables(from, size) == [startTime |-> from, first |-> size]

\* (mutant of IsShortPage: a full page is taken for the last one)
IsShortPageOffByOne(fetched, size) == Len(fetched) <= size

\* (mutant of IsShortPage: the short-page test of lines 86-88 is missing)
IsShortPageNever(fetched, size) == FALSE

\* line 86
IsShortPage(fetched, size) == Len(fetched) < size

\* (mutant of LoopContinues: the page count is not tested)
LoopContinuesUncapped == hasMoreData

\* line 36
LoopContinues == hasMoreData /\ batchCount < maxBatches

FetchInit ==
    /\ service \in {"honest", "mock"}
    /\ pool \in Pools
    /\ (service = "mock") => (pool = <<>> /\ startTime = 1)
    /\ startTime \in StartTimes
    /\ maxBatches \in 0..MaxBatches
    /\ batchSize \in 1..MaxBatchSize
    /\ allEvents = <<>>
    /\ currentStartTime = startTime
    /\ hasMoreData = TRUE
    /\ batchCount = 0
    /\ lastTimestamp = 0
    /\ fpc = "loop"
    /\ calls = 0
    /\ requests = <<>>
    /\ pages = <<>>
    /\ result = NoResult
    /\ thrown = NoError
    /\ rejected = NoRejection

\* lines 36-56: the loop test holds and the next page is requested.
IssueQuery ==
    /\ fpc = "loop"
    /\ LoopContinues
    /\ fpc' = "await"
    /\ calls' = calls + 1
    /\ requests' = Append(requests, QueryVariables(currentStartTime, batchSize))
    /\ UNCHANGED <<service, pool, startTime, maxBatches, batchSize, allEvents,
                   currentStartTime, hasMoreData, batchCount, lastTimestamp,
                   pages, result, thrown, rejected>>
    /\ UNCHANGED notFetchVars

\* lines 36, 106-108: the loop test fails and the accumulated events are returned.
ReturnAllEvents ==
    /\ fpc = "loop"
    /\ ~LoopContinues
    /\ fpc' = "done"
    /\ result' = Resolved(allEvents)
    /\ UNCHANGED <<service, pool, startTime, maxBatches, batchSize, allEvents,
                   currentStartTime, hasMoreData, batchCount, lastTimestamp,
                   calls, requests, pages, thrown, rejected>>
    /\ UNCHANGED notFetchVars

\* lines 59-98: the query resolved with the page fetched.
QueryResolved(fetched) ==
    /\ fpc = "await"
    /\ pages' = Append(pages, fetched)
    /\ IF IsEmptyPage(fetched) \/ IsStalled(lastTimestamp, fetched)
       THEN \* break, then lines 106-108
            /\ hasMoreData' = FALSE
            /\ fpc' = "done"
            /\ result' = Resolved(allEvents)
            /\ UNCHANGED <<allEvents, lastTimestamp, currentStartTime, batchCount>>
       ELSE /\ allEvents' = AppendEvents(allEvents, fetched)
            /\ lastTimestamp' = fetched[Len(fetched)].timestamp
            /\ currentStartTime' = NextStartTime(fetched[Len(fetched)].timestamp)
            /\ hasMoreData' = IF IsShortPage(fetched, batchSize) THEN FALSE ELSE hasMoreData
            /\ batchCount' = batchCount + 1
            /\ fpc' = "sleep"
            /\ UNCHANGED result
    /\ UNCHANGED <<service, pool, startTime, maxBatches, batchSize, calls,
                   requests, thrown, rejected>>
    /\ UNCHANGED notFetchVars

\* The honest service answers the outstanding request.
HonestResponse ==
    /\ service = "honest"
    /\ QueryResolved(HonestPage(requests[Len(requests)].startTime,
                                requests[Len(requests)].first))

\* A mock service answers with any page of at most batchSize records.
MockResponse ==
    /\ service = "mock"
    /\ \E fetched \in SeqsUpTo(MockEvents, batchSize) : QueryResolved(fetched)

\* (mutant of QueryRejected: the catch block swallows the error and the
\* function returns what it has accumulated)
QueryRejectedSwallowed(e) ==
    /\ fpc = "await"
    /\ fpc' = "done"
    /\ result' = Resolved(allEvents)
    /\ rejected' = [call |-> calls, error |-> e]
    /\ UNCHANGED <<service, pool, startTime, maxBatches, batchSize, allEvents,
                   currentStartTime, hasMoreData, batchCount, lastTimestamp,
                   calls, requests, pages, thrown>>
    /\ UNCHANGED notFetchVars

\* lines 99-103: the query rejected with error e; the catch block rethrows it.
QueryRejected(e) ==
    /\ fpc = "await"
    /\ fpc' = "failed"
    /\ thrown' = e
    /\ rejected' = [call |-> calls, error |-> e]
    /\ UNCHANGED <<service, pool, startTime, maxBatches, batchSize, allEvents,
                   currentStartTime, hasMoreData, batchCount, lastTimestamp,
                   calls, requests, pages, result>>
    /\ UNCHANGED notFetchVars

FailedResponse == \E e \in Errors : QueryRejected(e)

\* line 98: the 100 ms timer fires and the loop test is evaluated again.
TimerFired ==
    /\ fpc = "sleep"
    /\ fpc' = "loop"
    /\ UNCHANGED <<service, pool, startTime, maxBatches, batchSize, allEvents,
                   currentStartTime, hasMoreData, batchCount, lastTimestamp,
                   calls, requests, pages, result, thrown, rejected>>
    /\ UNCHANGED notFetchVars

FetchNext ==
    \/ IssueQuery
    \/ ReturnAllEvents
    \/ HonestResponse
    \/ MockResponse
    \/ FailedResponse
    \/ TimerFired

FetchIdle ==
    /\ service = "honest"
    /\ pool = <<>>
    /\ startTime = 1
    /\ maxBatches = 0
    /\ batchSize = 1
    /\ allEvents = <<>>
    /\ currentStartTime = 1
    /\ hasMoreData = TRUE
    /\ batchCount = 0
    /\ lastTimestamp = 0
    /\ fpc = "idle"
    /\ calls = 0
    /\ requests = <<>>
    /\ pages = <<>>
    /\ result = NoResult
    /\ thrown = NoError
    /\ rejected = NoRejection

(***************************************************************************)
(* The calendar of JavaScript's Date, in local time.                       *)
(***************************************************************************)
SecondsPerDay == 86400

\* Offsets of local time from UTC the host may run with: UTC and UTC+9.
TzOffsets == {0, 32400}

\* The local calendar day (days since 1970-01-01) a timestamp falls on.
LocalDay(t) == (t + tz) \div SecondsPerDay

\* new Date(y, m, d).getTime() / 1000, setHours(0, 0, 0, 0): local midnight.
DayStart(d) == d * SecondsPerDay - tz

\* getDay(): 0 is Sunday; 1970-01-01 was a Thursday.
GetDay(d) == (d + 4) % 7

\* Day number -> civil date [year, month (1..12), date].
CivilFromDays(z) ==
    LET z1 == z + 719468
        era == z1 \div 146097
        doe == z1 - era * 146097
        yoe == (doe - doe \div 1460 + doe \div 36524 - doe \div 146096) \div 365
        doy == doe - (365 * yoe + yoe \div 4 - yoe \div 100)
        mp == (5 * doy + 2) \div 153
        m == IF mp < 10 THEN mp + 3 ELSE mp - 9
    IN [year |-> yoe + era * 400 + (IF m <= 2 THEN 1 ELSE 0),
        month |-> m,
        date |-> doy - (153 * mp + 2) \div 5 + 1]

\* Civil date -> day number; date may lie outside the month (Date normalises).
DaysFromCivil(y, m, d) ==
    LET y1 == IF m <= 2 THEN y - 1 ELSE y
        era == y1 \div 400
        yoe == y1 - era * 400
        doy == (153 * (IF m > 2 THEN m - 3 ELSE m + 9) + 2) \div 5 + d - 1
        doe == yoe * 365 + yoe \div 4 - yoe \div 100 + doy
    IN era * 146097 + doe - 719468

\* `${getFullYear()}-${getMonth() + 1}-${getDate()}`, zero padded: the key
\* "YYYY-MM-DD" is held as the civil date it spells; an invalid Date gives
\* "NaN-NaN-NaN".
DateKey(t) ==
    IF t = NaN THEN [year |-> NaN, month |-> NaN, date |-> NaN]
    ELSE CivilFromDays(LocalDay(t))

\* Math.floor(new Date(y, m, d).getTime() / 1000) of the Date of timestamp t
DayStartOf(t) == IF t = NaN THEN NaN ELSE DayStart(LocalDay(t))

\* new Date("YYYY-MM-DD").getTime() / 1000: a date-only string is read as
\* midnight UTC of that date.
ParseDateKey(key) == DaysFromCivil(key.year, key.month, key.date) * SecondsPerDay

(***************************************************************************)
(* Array.prototype.sort((a, b) => a.timestamp - b.timestamp): stable.  A   *)
(* comparison that gives NaN counts as "equal".                            *)
(***************************************************************************)
CompareTimestamps(a, b) ==
    IF a.timestamp = NaN \/ b.timestamp = NaN THEN 0 ELSE a.timestamp - b.timestamp

RECURSIVE InsertByTimestamp(_, _)
InsertByTimestamp(sorted, x) ==
    IF sorted = <<>> THEN <<x>>
    ELSE IF CompareTimestamps(sorted[Len(sorted)], x) <= 0 THEN Append(sorted, x)
    ELSE Append(InsertByTimestamp(SubSeq(sorted, 1, Len(sorted) - 1), x),
                sorted[Len(sorted)])

RECURSIVE SortByTimestamp(_)
SortByTimestamp(s) ==
    IF s = <<>> THEN <<>>
    ELSE InsertByTimestamp(SortByTimestamp(SubSeq(s, 1, Len(s) - 1)), s[Len(s)])

\* A Map is held as the sequence of its entries, in insertion order.
MapHas(map, key) == \E i \in 1..Len(map) : map[i].key = key
MapIndex(map, key) == CHOOSE i \in 1..Len(map) : map[i].key = key
MapValues(map) == [i \in 1..Len(map) |-> map[i].value]

(***************************************************************************)
(* calculateDailyFees and aggregateByPeriod                                *)
(***************************************************************************)
\* Number(swap.timestamp || 0), Number(swap.amountUSD || 0): the number the
\* string spells, NaN when it spells none
ToNumber(x) == x

\* line 50 with line 30: swapAmountUSD * (feeTier / 1000000), in 10^-6 USD
FeeAmount(swapAmountUSD, tier) == Times(swapAmountUSD, tier)

\* lines 55, 64: what a swap adds to the day's volume
SwapVolume(swapAmountUSD) == swapAmountUSD

\* (mutant of IsSkippedSwap: only the timestamp is validated)
IsSkippedSwapTimestampOnly(swap) == ToNumber(swap.timestamp) = 0

\* lines 37-38, 46-47: swaps without timestamp or amount are passed over
IsSkippedSwap(swap) == ToNumber(swap.timestamp) = 0 \/ ToNumber(swap.amountUSD) = 0

\* lines 35-68: one turn of the forEach
AddSwapToDay(map, swap, tier) ==
    LET timestamp == ToNumber(swap.timestamp)
        dateKey == DateKey(timestamp)
        swapAmountUSD == ToNumber(swap.amountUSD)
        feeAmount == FeeAmount(swapAmountUSD, tier)
    IN IF IsSkippedSwap(swap) THEN map
       ELSE IF MapHas(map, dateKey)
       THEN LET i == MapIndex(map, dateKey)
                dayData == map[i].value
            IN [map EXCEPT ![i].value =
                    [timestamp |-> dayData.timestamp,
                     feeUSD |-> Plus(dayData.feeUSD, feeAmount),
                     volumeUSD |-> Plus(dayData.volumeUSD, SwapVolume(swapAmountUSD)),
                     count |-> dayData.count + 1]]
       ELSE Append(map, [key |-> dateKey,
                         value |-> [timestamp |-> DayStartOf(timestamp),
                                    feeUSD |-> feeAmount,
                                    volumeUSD |-> SwapVolume(swapAmountUSD),
                                    count |-> 1]])

RECURSIVE DailyFeesMap(_, _)
DailyFeesMap(swaps, tier) ==
    IF swaps = <<>> THEN <<>>
    ELSE AddSwapToDay(DailyFeesMap(SubSeq(swaps, 1, Len(swaps) - 1), tier),
                      swaps[Len(swaps)], tier)

\* lines 25-72
CalculateDailyFees(swaps, tier) ==
    IF Len(swaps) = 0 THEN <<>>
    ELSE SortByTimestamp(MapValues(DailyFeesMap(swaps, tier)))

\* (mutant of WeekStartDiff: Sunday is taken for the first day of its week)
WeekStartDiffSundayFirst(date, dayOfWeek) == date - dayOfWeek + 1

\* line 151: the day of the month of the Monday that starts the week
WeekStartDiff(date, dayOfWeek) == date - dayOfWeek + (IF dayOfWeek = 0 THEN -6 ELSE 1)

\* lines 144-164: the key of the period a day belongs to
PeriodKey(day, type) ==
    LET d == LocalDay(day.timestamp)
        civil == CivilFromDays(d)
    IN IF type = "week"
       THEN \* firstDayOfWeek.setDate(diff): day diff of the same month
            CivilFromDays(DaysFromCivil(civil.year, civil.month,
                                        WeekStartDiff(civil.date, GetDay(d))))
       ELSE IF type = "month"
       THEN [year |-> civil.year, month |-> civil.month, date |-> 1]
       ELSE civil

\* lines 143-181: one turn of the forEach
AddDayToPeriod(map, day, type) ==
    LET periodKey == PeriodKey(day, type)
    IN IF MapHas(map, periodKey)
       THEN LET i == MapIndex(map, periodKey)
                existingData == map[i].value
            IN [map EXCEPT ![i].value =
                    [timestamp |-> existingData.timestamp,
                     feeUSD |-> existingData.feeUSD + day.feeUSD,
                     volumeUSD |-> existingData.volumeUSD + day.volumeUSD,
                     count |-> existingData.count + day.count]]
       ELSE Append(map, [key |-> periodKey,
                         value |-> [timestamp |-> ParseDateKey(periodKey),
                                    feeUSD |-> day.feeUSD,
                                    volumeUSD |-> day.volumeUSD,
                                    count |-> day.count]])

RECURSIVE PeriodMap(_, _)
PeriodMap(dailyData, type) ==
    IF dailyData = <<>> THEN <<>>
    ELSE AddDayToPeriod(PeriodMap(SubSeq(dailyData, 1, Len(dailyData) - 1), type),
                        dailyData[Len(dailyData)], type)

\* (mutant of AggregateByPeriod: 'day' is bucketed like the other periods)
AggregateByPeriodRebucketed(dailyData, type) ==
    IF Len(dailyData) = 0 THEN <<>>
    ELSE SortByTimestamp(MapValues(PeriodMap(dailyData, type)))

\* lines 137-185
AggregateByPeriod(dailyData, type) ==
    IF Len(dailyData) = 0 THEN <<>>
    ELSE IF type = "day" THEN dailyData
    ELSE SortByTimestamp(MapValues(PeriodMap(dailyData, type)))

\* A swap record as the aggregator reads it.
FeeSwap(t, a) == [timestamp |-> t, amountUSD |-> a]

\* Timestamps tried: none (0); Sat 1970-01-31 10:00 and 22:00 UTC,
\* Sun 1970-02-01 12:00 UTC, Mon 1970-02-02 12:00 UTC.
FeeTimestamps == {0, 2628000, 2671200, 2721600, 2808000}

\* amountUSD values tried: none (0), a sale and purchases.
FeeAmounts == {-2, 0, 3}

FeeTiers == {3000}

PeriodTypes == {"day", "week", "month"}

FeesInit ==
    /\ tz \in TzOffsets
    /\ feeSwaps \in SeqsUpTo({FeeSwap(t, a) : t \in FeeTimestamps, a \in FeeAmounts},
                             MaxFeeSwaps)
    /\ feeTier \in FeeTiers
    /\ dailyFees = <<>>
    /\ periodType = "day"
    /\ periodFees = <<>>
    /\ feesPc = "input"

FeesIdle ==
    /\ feeSwaps = <<>>
    /\ feeTier = 3000
    /\ dailyFees = <<>>
    /\ periodType = "day"
    /\ periodFees = <<>>
    /\ feesPc = "idle"

\* calculateDailyFees(swapEvents, feeTier) is called.
CallCalculateDailyFees ==
    /\ feesPc = "input"
    /\ dailyFees' = CalculateDailyFees(feeSwaps, feeTier)
    /\ feesPc' = "daily"
    /\ UNCHANGED <<tz, feeSwaps, feeTier, periodType, periodFees>>
    /\ UNCHANGED <<fetchVars, reconVars, tickVars, pageVars>>

\* aggregateByPeriod(dailyData, periodType) is called on the daily series.
CallAggregateByPeriod ==
    /\ feesPc = "daily"
    /\ \E type \in PeriodTypes :
        /\ periodType' = type
        /\ periodFees' = AggregateByPeriod(dailyFees, type)
    /\ feesPc' = "aggregated"
    /\ UNCHANGED <<tz, feeSwaps, feeTier, dailyFees>>
    /\ UNCHANGED <<fetchVars, reconVars, tickVars, pageVars>>

FeesNext ==
    \/ CallCalculateDailyFees
    \/ CallAggregateByPeriod

\* Swaps as the indexer may deliver them: timestamp and amountUSD that are
\* zero, that spell no number, or that are well formed.
RawFeeTimestamps == {0, NaN, 2628000, 2671200}

RawFeeAmounts == {0, NaN, 3}

FeesRawInit ==
    /\ tz \in TzOffsets
    /\ feeSwaps \in SeqsUpTo({FeeSwap(t, a) : t \in RawFeeTimestamps, a \in RawFeeAmounts},
                             MaxFeeSwaps)
    /\ feeTier \in FeeTiers
    /\ dailyFees = <<>>
    /\ periodType = "day"
    /\ periodFees = <<>>
    /\ feesPc = "input"

\* Only calculateDailyFees is applied to them.
FeesRawNext == CallCalculateDailyFees

(***************************************************************************)
(* processEventsIntoMap, combineDataWithFees, fillMissingDates and the     *)
(* hook useLiquidityHistory that chains them.                              *)
(***************************************************************************)
LookbackDays == 90
LiquidityDisplayScale == 1000000

\* eventsProcessor.ts line 21
StartTimestamp(nowSec) == nowSec - LookbackDays * SecondsPerDay

\* lines 46-52: Number(liquidity) / 1000000
FormatLiquidity(liquidity) == liquidity \div LiquidityDisplayScale

\* Map.prototype.set: a key already there keeps its place.
MapSet(map, key, value) ==
    IF MapHas(map, key)
    THEN [map EXCEPT ![MapIndex(map, key)].value = value]
    ELSE Append(map, [key |-> key, value |-> value])

\* lines 24-30: filter to the window, then sort ascending by timestamp
RelevantEvents(events, nowSec) ==
    SortByTimestamp(SelectSeq(events,
        LAMBDA e : ToNumber(e.timestamp) >= StartTimestamp(nowSec)))

\* The snapshot written for the calendar day of timestamp t
\* (lines 54-63, 111-120, 140-149).
Snapshot(t, run) ==
    [timestamp |-> DayStart(LocalDay(t)),
     liquidity |-> FormatLiquidity(run.currentLiquidity),
     tvlUSD |-> run.currentTvlUSD,
     token0Amount |-> run.currentToken0,
     token1Amount |-> run.currentToken1,
     tick |-> run.currentTick,
     sqrtPrice |-> run.currentSqrtPrice]

\* lines 32-38, 54-63: the running state and the map holding the row of the
\* day the window starts on
InitialRun(pd, nowSec) ==
    LET run == [currentLiquidity |-> 0,
                currentTvlUSD |-> 0,
                currentToken0 |-> 0,
                currentToken1 |-> 0,
                currentTick |-> ToNumber(pd.tick),
                currentSqrtPrice |-> ToNumber(pd.sqrtPrice),
                dateMap |-> <<>>]
    IN [run EXCEPT !.dateMap =
            MapSet(<<>>, DateKey(StartTimestamp(nowSec)),
                   Snapshot(StartTimestamp(nowSec), run))]

\* (mutant of NextLiquidity: the sign of a removal is lost)
NextLiquidityMagnitudeOnly(currentLiquidity, liquidityDelta) ==
    currentLiquidity + Abs(liquidityDelta)

\* lines 70-76: a delta that starts with '-' is subtracted without its sign,
\* any other is added
NextLiquidity(currentLiquidity, liquidityDelta) ==
    IF liquidityDelta < 0 THEN currentLiquidity - Abs(liquidityDelta)
    ELSE currentLiquidity + liquidityDelta

\* lines 66-121: one turn of the loop over the liquidity events
ApplyLiquidityEvent(run, event, pd) ==
    LET removal == event.liquidityDelta < 0    \* startsWith('-')
        amount0 == Abs(ToNumber(event.amount0))
        amount1 == Abs(ToNumber(event.amount1))
        token0 == IF removal THEN Max(0, run.currentToken0 - amount0)
                  ELSE run.currentToken0 + amount0
        token1 == IF removal THEN Max(0, run.currentToken1 - amount1)
                  ELSE run.currentToken1 + amount1
        after == IF event.hasLiquidityDelta
                 THEN [run EXCEPT
                         !.currentLiquidity = NextLiquidity(run.currentLiquidity,
                                                            event.liquidityDelta),
                         !.currentToken0 = token0,
                         !.currentToken1 = token1,
                         !.currentTvlUSD = token0 * ToNumber(pd.token0Price)
                                             + token1 * ToNumber(pd.token1Price)]
                 ELSE run
    IN [after EXCEPT !.dateMap =
            MapSet(run.dateMap, DateKey(ToNumber(event.timestamp)),
                   Snapshot(ToNumber(event.timestamp), after))]

RECURSIVE ReplayLiquidityEvents(_, _, _)
ReplayLiquidityEvents(run, events, pd) ==
    IF events = <<>> THEN run
    ELSE ReplayLiquidityEvents(ApplyLiquidityEvent(run, Head(events), pd),
                               Tail(events), pd)

\* lines 124-151: one turn of the loop over the swap events
ApplySwapEvent(run, swap) ==
    LET timestamp == ToNumber(swap.timestamp)
        dateKey == DateKey(timestamp)
        after == [run EXCEPT
                    !.currentTick = IF swap.hasTick THEN ToNumber(swap.tick) ELSE @,
                    !.currentSqrtPrice = IF swap.hasTick THEN ToNumber(swap.sqrtPriceX96)
                                         ELSE @]
    IN IF MapHas(run.dateMap, dateKey)
       THEN LET i == MapIndex(run.dateMap, dateKey)
            IN [after EXCEPT !.dateMap[i].value.tick = after.currentTick,
                             !.dateMap[i].value.sqrtPrice = after.currentSqrtPrice]
       ELSE [after EXCEPT !.dateMap =
                MapSet(run.dateMap, dateKey, Snapshot(timestamp, after))]

RECURSIVE ReplaySwapEvents(_, _)
ReplaySwapEvents(run, swaps) ==
    IF swaps = <<>> THEN run
    ELSE ReplaySwapEvents(ApplySwapEvent(run, Head(swaps)), Tail(swaps))

\* lines 72, 75: BigInt(string) throws a SyntaxError when the string spells
\* no integer; nothing in processEventsIntoMap or its caller catches it.
BigIntThrows(event) == event.hasLiquidityDelta /\ ~event.integerDelta

\* lines 24-26, 66-76: the loop meets an event whose delta BigInt rejects
ProcessEventsIntoMapThrows(liqEvents, nowSec) ==
    \E k \in 1..Len(liqEvents) :
        /\ ToNumber(liqEvents[k].timestamp) >= StartTimestamp(nowSec)
        /\ BigIntThrows(liqEvents[k])

\* lines 12-154
ProcessEventsIntoMap(liqEvents, swaps, pd, nowSec) ==
    LET afterLiquidity ==
            ReplayLiquidityEvents(InitialRun(pd, nowSec),
                                  RelevantEvents(liqEvents, nowSec), pd)
    IN ReplaySwapEvents(afterLiquidity, RelevantEvents(swaps, nowSec)).dateMap

\* liquidityHistoryUtils.ts lines 56-66
CombineDataWithFees(dataPoints, feesData) ==
    [i \in 1..Len(dataPoints) |->
        LET dataPoint == dataPoints[i]
            matching == {k \in 1..Len(feesData) :
                            feesData[k].timestamp = dataPoint.timestamp}
            found == matching # {}
            \* Array.prototype.find: the first match
            matchingFee == feesData[CHOOSE k \in matching : \A l \in matching : k <= l]
        IN [timestamp |-> dataPoint.timestamp,
            liquidity |-> dataPoint.liquidity,
            tvlUSD |-> dataPoint.tvlUSD,
            token0Amount |-> dataPoint.token0Amount,
            token1Amount |-> dataPoint.token1Amount,
            tick |-> dataPoint.tick,
            sqrtPrice |-> dataPoint.sqrtPrice,
            dailyFeeUSD |-> IF found THEN matchingFee.feeUSD ELSE 0,
            volumeUSD |-> IF found THEN matchingFee.volumeUSD ELSE 0,
            swapCount |-> IF found THEN matchingFee.count ELSE 0]]

\* lines 86-93, 100-107: the points whose local date is day d
PointsOfDay(points, d) == {i \in 1..Len(points) : LocalDay(points[i].timestamp) = d}

\* (mutant of PreviousDay: the day itself is looked up, not the day before)
PreviousDaySame(d) == d

\* lines 97-98: previousDay.setDate(previousDay.getDate() - 1)
PreviousDay(d) == d - 1

\* lines 84-128: the loop over the days, currentDate being midnight of day d
RECURSIVE FillFrom(_, _, _)
FillFrom(filledData, d, endTs) ==
    IF DayStart(d) > endTs THEN filledData
    ELSE IF PointsOfDay(filledData, d) # {} THEN FillFrom(filledData, d + 1, endTs)
    ELSE LET previous == PointsOfDay(filledData, PreviousDay(d))
         IN IF previous = {} THEN FillFrom(filledData, d + 1, endTs)
            ELSE LET previousData ==
                         filledData[CHOOSE k \in previous : \A l \in previous : k <= l]
                 IN FillFrom(Append(filledData,
                                    [timestamp |-> DayStart(d),
                                     liquidity |-> previousData.liquidity,
                                     tvlUSD |-> previousData.tvlUSD,
                                     token0Amount |-> previousData.token0Amount,
                                     token1Amount |-> previousData.token1Amount,
                                     tick |-> previousData.tick,
                                     sqrtPrice |-> previousData.sqrtPrice,
                                     dailyFeeUSD |-> 0,
                                     volumeUSD |-> 0,
                                     swapCount |-> 0]),
                            d + 1, endTs)

\* lines 73-132
FillMissingDates(dataPoints) ==
    IF Len(dataPoints) = 0 THEN <<>>
    ELSE SortByTimestamp(
            FillFrom(dataPoints, LocalDay(dataPoints[1].timestamp),
                     dataPoints[Len(dataPoints)].timestamp))

\* A liquidity-modification event as the reconstruction reads it; the
\* optional liquidityDelta is held with a flag telling whether it is there.
LiquidityEvent(t, has, delta, a0, a1) ==
    [timestamp |-> t, hasLiquidityDelta |-> has, liquidityDelta |-> delta,
     integerDelta |-> TRUE, amount0 |-> a0, amount1 |-> a1]

\* A liquidity event whose liquidityDelta is a string that spells no integer,
\* such as 'abc' or '1.5'.
MalformedLiquidityEvent(t, a0, a1) ==
    [timestamp |-> t, hasLiquidityDelta |-> TRUE, liquidityDelta |-> NaN,
     integerDelta |-> FALSE, amount0 |-> a0, amount1 |-> a1]

\* A swap event as the reconstruction reads it; tick and sqrtPriceX96 are
\* held with a flag telling whether they are there.
SwapEvent(t, has, tick, sqrtPriceX96, amountUSD) ==
    [timestamp |-> t, hasTick |-> has, tick |-> tick,
     sqrtPriceX96 |-> sqrtPriceX96, amountUSD |-> amountUSD]

\* The clock: 1970-04-11 12:00 UTC, so that the window starts on
\* 1970-01-11 at 12:00 UTC.
Nows == {8683200}

\* Event times tried, counted from the start of the window: an hour before
\* it, two hours into it, a day, and three days into it.
EventOffsets == {-3600, 7200, 86400, 259200}

\* Liquidity changes tried: an addition, a removal of the same size, and an
\* event without liquidityDelta.
LiquidityChanges ==
    {[has |-> TRUE, delta |-> 3 * LiquidityDisplayScale, a0 |-> 3, a1 |-> 1],
     [has |-> TRUE, delta |-> -3 * LiquidityDisplayScale, a0 |-> -4, a1 |-> 5],
     [has |-> FALSE, delta |-> 0, a0 |-> 1, a1 |-> 1]}

LiquidityEventsAt(nowSec) ==
    {LiquidityEvent(StartTimestamp(nowSec) + o, c.has, c.delta, c.a0, c.a1) :
        o \in EventOffsets, c \in LiquidityChanges}

\* Swaps tried: an hour before the window, two hours and two days into it.
SwapOffsets == {-3600, 7200, 172800}

SwapEventsAt(nowSec) ==
    {SwapEvent(StartTimestamp(nowSec) + o, TRUE, 7, 70, 3) : o \in SwapOffsets}
        \cup {SwapEvent(StartTimestamp(nowSec) + 172800, FALSE, 0, 0, -2)}

Pools90d ==
    {[tick |-> 3, sqrtPrice |-> 30, token0Price |-> 2, token1Price |-> 1,
      feeTier |-> 3000, liquidity |-> 7 * LiquidityDisplayScale,
      totalValueLockedUSD |-> 11]}

ReconInit ==
    /\ tz \in TzOffsets
    /\ now \in Nows
    /\ liquidityEvents \in SeqsUpTo(LiquidityEventsAt(now), MaxLiqEvents)
    /\ swapEvents \in SeqsUpTo(SwapEventsAt(now), MaxSwapEvents)
    /\ poolData \in Pools90d
    /\ dateMap = <<>>
    /\ dailyDataPoints = <<>>
    /\ series = <<>>
    /\ rpc = "input"

\* The same, with events among them whose liquidityDelta spells no integer:
\* one an hour before the window, one two hours into it.
MalformedLiquidityEventsAt(nowSec) ==
    {MalformedLiquidityEvent(StartTimestamp(nowSec) + o, 1, 1) : o \in {-3600, 7200}}

ReconRawInit ==
    /\ tz \in TzOffsets
    /\ now \in Nows
    /\ liquidityEvents \in SeqsUpTo(LiquidityEventsAt(now)
                                       \cup MalformedLiquidityEventsAt(now),
                                     MaxLiqEvents)
    /\ swapEvents \in SeqsUpTo(SwapEventsAt(now), MaxSwapEvents)
    /\ poolData \in Pools90d
    /\ dateMap = <<>>
    /\ dailyDataPoints = <<>>
    /\ series = <<>>
    /\ rpc = "input"

ReconIdle ==
    /\ now = 0
    /\ liquidityEvents = <<>>
    /\ swapEvents = <<>>
    /\ poolData = [tick |-> 0, sqrtPrice |-> 0, token0Price |-> 0, token1Price |-> 0,
                   feeTier |-> 3000, liquidity |-> 0, totalValueLockedUSD |-> 0]
    /\ dateMap = <<>>
    /\ dailyDataPoints = <<>>
    /\ series = <<>>
    /\ rpc = "idle"

\* liquidityHistoryUtils.ts lines 25-32: both arrays are sorted, then
\* processEventsIntoMap is called.
CallProcessEventsIntoMap ==
    /\ rpc = "input"
    /\ IF ProcessEventsIntoMapThrows(SortByTimestamp(liquidityEvents), now)
       THEN \* the SyntaxError leaves the hook: no series is returned
            /\ rpc' = "threw"
            /\ UNCHANGED dateMap
       ELSE /\ dateMap' = ProcessEventsIntoMap(SortByTimestamp(liquidityEvents),
                                               SortByTimestamp(swapEvents),
                                               poolData, now)
            /\ rpc' = "mapped"
    /\ UNCHANGED <<tz, now, liquidityEvents, swapEvents, poolData,
                   dailyDataPoints, series>>
    /\ UNCHANGED <<fetchVars, feesVars, tickVars, pageVars>>

\* lines 35-41: the rows are sorted, the daily fees are computed from all
\* the swaps and joined to the rows.
CallCombineDataWithFees ==
    /\ rpc = "mapped"
    /\ dailyDataPoints' =
         CombineDataWithFees(SortByTimestamp(MapValues(dateMap)),
                             CalculateDailyFees(SortByTimestamp(swapEvents),
                                                poolData.feeTier))
    /\ rpc' = "combined"
    /\ UNCHANGED <<tz, now, liquidityEvents, swapEvents, poolData, dateMap, series>>
    /\ UNCHANGED <<fetchVars, feesVars, tickVars, pageVars>>

\* lines 44-46: the gaps are filled and the series is returned.
CallFillMissingDates ==
    /\ rpc = "combined"
    /\ series' = FillMissingDates(dailyDataPoints)
    /\ rpc' = "filled"
    /\ UNCHANGED <<tz, now, liquidityEvents, swapEvents, poolData, dateMap,
                   dailyDataPoints>>
    /\ UNCHANGED <<fetchVars, feesVars, tickVars, pageVars>>

ReconNext ==
    \/ CallProcessEventsIntoMap
    \/ CallCombineDataWithFees
    \/ CallFillMissingDates

(***************************************************************************)
(* The tick charts of the pool page: generateTicksFromPositions feeds the  *)
(* active-range chart, and the depth chart normalises the positions it is  *)
(* handed and runs calculateLiquidityDelta over them.  The derived prices  *)
(* price0 and price1 (powers of 1.0001) and the ids are left out of the    *)
(* rows.                                                                   *)
(***************************************************************************)
RangeSize == 50
DefaultTickSpacing == 60

\* tickDataProcessor.ts line 40
CurrentTickOf(info) == IF info.tick # 0 THEN info.tick ELSE 0

\* lines 41-43
TickSpacingOf(info) ==
    IF info.tickSpacing # 0 THEN info.tickSpacing ELSE DefaultTickSpacing

\* lines 52-59, 72-79, 111-118: a fresh row of the table
EmptyTick(tickIdx) == [tickIdx |-> tickIdx, liquidityNet |-> 0, liquidityGross |-> 0]

\* lines 46-60: the window of ticks around the current tick
Scaffold(currentTick, tickSpacing) ==
    [k \in 1..(2 * RangeSize + 1) |->
        LET i == k - RangeSize - 1
            tickIdx == (currentTick \div tickSpacing) * tickSpacing + i * tickSpacing
        IN [key |-> tickIdx, value |-> EmptyTick(tickIdx)]]

\* lines 71-80, 110-119
EnsureTick(map, tickIdx) ==
    IF MapHas(map, tickIdx) THEN map ELSE MapSet(map, tickIdx, EmptyTick(tickIdx))

\* lines 86-92, 125-131: BigInt(string) throws when the string spells no
\* integer literal ('3e1', '1.5'); the catch blocks of lines 93-101 and
\* 132-140 then add with Number instead, and report nothing.
UsesFallback(position) == position.liquidity # 0 /\ ~position.integerLiquidity

\* lines 82-107: the lower boundary gains the liquidity. The try block and
\* the catch block give the same sum for the amounts of the model, all far
\* below 2^53.
AddAtLowerTick(map, tickLower, liquidityAmount) ==
    LET ensured == EnsureTick(map, tickLower)
        lowerTick == ensured[MapIndex(ensured, tickLower)].value
    IN MapSet(ensured, tickLower,
              [lowerTick EXCEPT !.liquidityNet = @ + liquidityAmount,
                                !.liquidityGross = @ + liquidityAmount])

\* (mutant of SortByTickIdx: the rows are left in the order of the Map)
SortByTickIdxMissing(s) == s

\* (mutant of AddAtUpperTick: the upper boundary gains net liquidity too)
AddAtUpperTickAsLower(map, tickUpper, liquidityAmount) ==
    AddAtLowerTick(map, tickUpper, liquidityAmount)

\* lines 121-146: the upper boundary loses it
AddAtUpperTick(map, tickUpper, liquidityAmount) ==
    LET ensured == EnsureTick(map, tickUpper)
        upperTick == ensured[MapIndex(ensured, tickUpper)].value
    IN MapSet(ensured, tickUpper,
              [upperTick EXCEPT !.liquidityNet = @ - liquidityAmount,
                                !.liquidityGross = @ + liquidityAmount])

\* lines 63-147: one turn of the forEach
AddPosition(map, position) ==
    IF position.liquidity = 0 THEN map
    ELSE AddAtUpperTick(AddAtLowerTick(map, position.tickLower, position.liquidity),
                        position.tickUpper, position.liquidity)

RECURSIVE AddPositions(_, _)
AddPositions(map, ps) ==
    IF ps = <<>> THEN map
    ELSE AddPositions(AddPosition(map, Head(ps)), Tail(ps))

\* sort((a, b) => a.tickIdx - b.tickIdx): stable, so rows of equal tickIdx
\* keep the order they came in.
SortByTickIdx(s) ==
    LET numbered == [k \in 1..Len(s) |-> [at |-> k, row |-> s[k]]]
        sorted == SortSeq(numbered,
                          LAMBDA a, b : \/ a.row.tickIdx < b.row.tickIdx
                                        \/ a.row.tickIdx = b.row.tickIdx /\ a.at < b.at)
    IN [i \in 1..Len(s) |-> sorted[i].row]

\* tickDataProcessor.ts lines 33-153
GenerateTicksFromPositions(ps, info) ==
    IF Len(ps) = 0 THEN <<>>
    ELSE SortByTickIdx(MapValues(
            AddPositions(Scaffold(CurrentTickOf(info), TickSpacingOf(info)), ps)))

\* tickDataProcessor.ts lines 33-153: the function makes no console call,
\* neither in its try blocks nor in its catch blocks.
GenerateTicksConsole(ps, info) == <<>>

\* LiquidityDepthChart.tsx lines 99-120: a position becomes a row at its
\* lower tick; a row of a tick table is taken as it is.
NormalizeTick(tick) ==
    IF {"tickLower", "tickUpper", "liquidity"} \subseteq DOMAIN tick
    THEN [tickIdx |-> tick.tickLower,
          liquidityNet |-> tick.liquidity,
          liquidityGross |-> tick.liquidity]
    ELSE [tickIdx |-> tick.tickIdx,
          liquidityNet |-> tick.liquidityNet,
          liquidityGross |-> tick.liquidityGross]

\* lines 95-121
NormalizedTickData(data) ==
    IF Len(data) = 0 THEN <<>> ELSE [i \in 1..Len(data) |-> NormalizeTick(data[i])]

\* liquidityMath.ts lines 110-125: the running sum of liquidityNet
RECURSIVE AccumulateLiquidity(_, _, _)
AccumulateLiquidity(resultSoFar, currentLiquidity, sortedTicks) ==
    IF sortedTicks = <<>> THEN resultSoFar
    ELSE LET tick == Head(sortedTicks)
             active == currentLiquidity + tick.liquidityNet
         IN AccumulateLiquidity(
                Append(resultSoFar,
                       [tickIdx |-> tick.tickIdx,
                        liquidityNet |-> tick.liquidityNet,
                        liquidityGross |-> tick.liquidityGross,
                        liquidityActive |-> active,
                        liquidityDelta |-> tick.liquidityNet]),
                active, Tail(sortedTicks))

\* liquidityMath.ts lines 102-128
CalculateLiquidityDelta(ticks) ==
    IF Len(ticks) = 0 THEN <<>>
    ELSE AccumulateLiquidity(<<>>, 0, SortByTickIdx(ticks))

\* A position as the page holds it.
Position(lower, upper, liquidity) ==
    [tickLower |-> lower, tickUpper |-> upper, liquidity |-> liquidity,
     integerLiquidity |-> TRUE]

\* A position whose liquidity is spelled with an exponent, as '3e1' for 30:
\* Number reads it, BigInt rejects it.
ExponentPosition(lower, upper, liquidity) ==
    [tickLower |-> lower, tickUpper |-> upper, liquidity |-> liquidity,
     integerLiquidity |-> FALSE]

\* Ranges tried: ticks on the grid of spacing 60 and off it, ranges that
\* meet at a tick, that overlap, and one that ends beyond the window.
PositionRanges == {<<-60, 100>>, <<100, 200>>, <<120, 200>>, <<0, 6000>>}

PositionLiquidities == {0, 30, 50}

PoolInfos == {[tick |-> -1, tickSpacing |-> 60],
              [tick |-> 130, tickSpacing |-> 0],
              [tick |-> 0, tickSpacing |-> 10]}

TicksInit ==
    /\ positions \in SeqsUpTo({Position(r[1], r[2], l) :
                                  r \in PositionRanges, l \in PositionLiquidities},
                              MaxPositions)
    /\ poolInfo \in PoolInfos
    /\ tickData = <<>>
    /\ normalizedTickData = <<>>
    /\ processedTicks = <<>>
    /\ consoleOutput = <<>>
    /\ tkpc = "input"

\* The same, with positions among them whose liquidity BigInt rejects.
TicksRawInit ==
    /\ positions \in SeqsUpTo({Position(r[1], r[2], l) :
                                  r \in PositionRanges, l \in PositionLiquidities}
                                  \cup {ExponentPosition(100, 200, 30),
                                        ExponentPosition(0, 6000, 50)},
                              MaxPositions)
    /\ poolInfo \in PoolInfos
    /\ tickData = <<>>
    /\ normalizedTickData = <<>>
    /\ processedTicks = <<>>
    /\ consoleOutput = <<>>
    /\ tkpc = "input"

TicksIdle ==
    /\ positions = <<>>
    /\ poolInfo = [tick |-> 0, tickSpacing |-> 0]
    /\ tickData = <<>>
    /\ normalizedTickData = <<>>
    /\ processedTicks = <<>>
    /\ consoleOutput = <<>>
    /\ tkpc = "idle"

\* pages/pool/[id].tsx line 432: the active-range chart is handed the table.
RenderActiveTickRange ==
    /\ tkpc = "input"
    /\ tickData' = GenerateTicksFromPositions(positions, poolInfo)
    /\ consoleOutput' = consoleOutput \o GenerateTicksConsole(positions, poolInfo)
    /\ tkpc' = "ticks"
    /\ UNCHANGED <<positions, poolInfo, normalizedTickData, processedTicks>>
    /\ UNCHANGED <<fetchVars, tz, feesVars, reconVars, pageVars>>

\* pages/pool/[id].tsx lines 448-455: the depth chart is rendered when there
\* are positions, and is handed the positions themselves.
RenderDepthChart ==
    /\ tkpc = "ticks"
    /\ Len(positions) > 0
    /\ normalizedTickData' = NormalizedTickData(positions)
    /\ tkpc' = "normalized"
    /\ UNCHANGED <<positions, poolInfo, tickData, processedTicks, consoleOutput>>
    /\ UNCHANGED <<fetchVars, tz, feesVars, reconVars, pageVars>>

\* LiquidityDepthChart.tsx lines 124-137
FormatDepthData ==
    /\ tkpc = "normalized"
    /\ processedTicks' = CalculateLiquidityDelta(normalizedTickData)
    /\ tkpc' = "processed"
    /\ UNCHANGED <<positions, poolInfo, tickData, normalizedTickData, consoleOutput>>
    /\ UNCHANGED <<fetchVars, tz, feesVars, reconVars, pageVars>>

TicksNext ==
    \/ RenderActiveTickRange
    \/ RenderDepthChart
    \/ FormatDepthData

(***************************************************************************)
(* The pool page: fetchLargeSwapDataset and the effect that calls it.      *)
(***************************************************************************)
MaxFetches == 2

\* utils.ts lines 76-97
GetTimeRangeTimestamp(range, at) ==
    CASE range = "1h" -> at - 60 * 60
      [] range = "24h" -> at - 24 * 60 * 60
      [] range = "7d" -> at - 7 * 24 * 60 * 60
      [] range = "30d" -> at - 30 * 24 * 60 * 60
      [] range = "90d" -> at - 90 * 24 * 60 * 60
      [] range = "180d" -> at - 180 * 24 * 60 * 60
      [] range = "1y" -> at - 365 * 24 * 60 * 60
      [] OTHER -> 0

\* What fetchAllSwapEvents resolves with against a service that honours the
\* filter and the order and holds fewer events than the cap of 100 x 1000.
EventsSince(from) == SelectSeq(serviceSwaps, LAMBDA e : e.timestamp >= from)

\* swapDataFetcher.ts lines 131-159: one turn of the forEach
AddSwapToChartDay(dailyData, event, tier) ==
    LET timestamp == ToNumber(event.timestamp)
        dateKey == DateKey(timestamp)
        amountUSD == ToNumber(event.amountUSD)
        feeUSD == Times(amountUSD, tier)
    IN IF timestamp = 0 THEN dailyData
       ELSE LET present == IF MapHas(dailyData, dateKey) THEN dailyData
                           ELSE Append(dailyData,
                                       [key |-> dateKey,
                                        value |-> [timestamp |-> DayStartOf(timestamp),
                                                   dailyVolumeUSD |-> 0,
                                                   dailyFeeUSD |-> 0,
                                                   txCount |-> 0,
                                                   tvlUSD |-> 0,
                                                   liquidity |-> 0]])
                i == MapIndex(present, dateKey)
            IN [present EXCEPT ![i].value.dailyVolumeUSD = Plus(@, amountUSD),
                               ![i].value.dailyFeeUSD = Plus(@, feeUSD),
                               ![i].value.txCount = @ + 1]

RECURSIVE ChartDailyData(_, _)
ChartDailyData(events, tier) ==
    IF events = <<>> THEN <<>>
    ELSE AddSwapToChartDay(ChartDailyData(SubSeq(events, 1, Len(events) - 1), tier),
                           events[Len(events)], tier)

\* lines 185-200: a day without TVL or liquidity takes those of the day before
RECURSIVE FillForward(_, _, _, _)
FillForward(done, lastTvl, lastLiquidity, rest) ==
    IF rest = <<>> THEN done
    ELSE LET item == Head(rest)
             tvl == IF item.tvlUSD = 0 /\ lastTvl # 0 THEN lastTvl ELSE item.tvlUSD
             liq == IF item.liquidity = 0 /\ lastLiquidity # 0 THEN lastLiquidity
                    ELSE item.liquidity
         IN FillForward(Append(done, [item EXCEPT !.tvlUSD = tvl, !.liquidity = liq]),
                        tvl, liq, Tail(rest))

\* swapDataFetcher.ts lines 120-202, called with no liquidity data
CreateChartDataFromSwapEvents(events, tier) ==
    FillForward(<<>>, 0, 0, SortByTimestamp(MapValues(ChartDailyData(events, tier))))

PageSwap(t, a) == [timestamp |-> t, amountUSD |-> a]

\* The clock of the page: 1970-04-11 12:00 UTC.
Clocks == {8683200}

\* One swap older than seven days, one within the last seven days.
ServiceSwaps == {<<>>,
                 <<PageSwap(1000000, 3)>>,
                 <<PageSwap(8100000, -2)>>,
                 <<PageSwap(1000000, 3), PageSwap(8100000, -2)>>}

TimeRanges == {"7d", "90d", "all"}

Tabs == {"liquidity", "positions"}

\* pages/pool/[id].tsx lines 1045-1056: the states as useState creates them,
\* before the pool query has answered.
PageInit ==
    /\ tz \in TzOffsets
    /\ clock \in Clocks
    /\ serviceSwaps \in ServiceSwaps
    /\ pagePoolData = [loaded |-> FALSE, feeTier |-> 3000]
    /\ timeRange = "90d"
    /\ activeTab = "liquidity"
    /\ fetches = <<>>
    /\ isLoadingSwapData = FALSE
    /\ loadingProgress = 0
    /\ allSwapEvents = <<>>
    /\ chartData = <<>>
    /\ dataError = NoError

PageIdle ==
    /\ clock = 0
    /\ serviceSwaps = <<>>
    /\ pagePoolData = [loaded |-> FALSE, feeTier |-> 0]
    /\ timeRange = "90d"
    /\ activeTab = "idle"
    /\ fetches = <<>>
    /\ isLoadingSwapData = FALSE
    /\ loadingProgress = 0
    /\ allSwapEvents = <<>>
    /\ chartData = <<>>
    /\ dataError = NoError

\* lines 1165-1169 with 1124-1146: the effect runs after a render in which
\* one of its dependencies changed; on the liquidity tab of a loaded pool it
\* calls fetchLargeSwapDataset, which runs up to the await of line 1138.
RunFetchEffect(poolLoaded, range, tab) ==
    IF poolLoaded /\ tab = "liquidity"
    THEN /\ Len(fetches) < MaxFetches
         /\ isLoadingSwapData' = TRUE
         /\ dataError' = NoError
         /\ allSwapEvents' = <<>>
         /\ loadingProgress' = 0
         /\ fetches' = Append(fetches,
                              [startTimestamp |-> GetTimeRangeTimestamp(range, clock),
                               status |-> "running"])
         /\ UNCHANGED chartData
    ELSE UNCHANGED <<isLoadingSwapData, dataError, allSwapEvents, loadingProgress,
                     fetches, chartData>>

\* The pool query answers: poolData.Pool_by_pk.feeTier becomes defined.
PoolDataLoaded ==
    /\ ~pagePoolData.loaded
    /\ pagePoolData' = [pagePoolData EXCEPT !.loaded = TRUE]
    /\ RunFetchEffect(TRUE, timeRange, activeTab)
    /\ UNCHANGED <<clock, serviceSwaps, timeRange, activeTab>>
    /\ UNCHANGED <<fetchVars, tz, feesVars, reconVars, tickVars>>

\* lines 1302-1304: the user picks another time range.
HandleTimeRangeChange(range) ==
    /\ range # timeRange
    /\ timeRange' = range
    /\ RunFetchEffect(pagePoolData.loaded, range, activeTab)
    /\ UNCHANGED <<clock, serviceSwaps, pagePoolData, activeTab>>
    /\ UNCHANGED <<fetchVars, tz, feesVars, reconVars, tickVars>>

ChangeTimeRange == \E range \in TimeRanges : HandleTimeRangeChange(range)

\* lines 1431-1463: the user picks another tab.
SetActiveTab(tab) ==
    /\ tab # activeTab
    /\ activeTab' = tab
    /\ RunFetchEffect(pagePoolData.loaded, timeRange, tab)
    /\ UNCHANGED <<clock, serviceSwaps, pagePoolData, timeRange>>
    /\ UNCHANGED <<fetchVars, tz, feesVars, reconVars, tickVars>>

ChangeTab == \E tab \in Tabs : SetActiveTab(tab)

\* lines 1138-1157, 1161-1163: the k-th call's fetch resolved.
FetchResolved(k) ==
    /\ fetches[k].status = "running"
    /\ fetches' = [fetches EXCEPT ![k].status = "resolved"]
    /\ loadingProgress' = 100
    /\ allSwapEvents' = EventsSince(fetches[k].startTimestamp)
    /\ chartData' = CreateChartDataFromSwapEvents(EventsSince(fetches[k].startTimestamp),
                                                  pagePoolData.feeTier)
    /\ isLoadingSwapData' = FALSE
    /\ UNCHANGED <<clock, serviceSwaps, pagePoolData, timeRange, activeTab, dataError>>
    /\ UNCHANGED <<fetchVars, tz, feesVars, reconVars, tickVars>>

SomeFetchResolved == \E k \in 1..Len(fetches) : FetchResolved(k)

\* lines 1158-1163: the k-th call's fetch rejected with error e.
FetchRejected(k, e) ==
    /\ fetches[k].status = "running"
    /\ fetches' = [fetches EXCEPT ![k].status = "rejected"]
    /\ loadingProgress' = 100
    /\ dataError' = e
    /\ isLoadingSwapData' = FALSE
    /\ UNCHANGED <<clock, serviceSwaps, pagePoolData, timeRange, activeTab,
                   allSwapEvents, chartData>>
    /\ UNCHANGED <<fetchVars, tz, feesVars, reconVars, tickVars>>

SomeFetchRejected == \E k \in 1..Len(fetches) : \E e \in Errors : FetchRejected(k, e)

PageNext ==
    \/ PoolDataLoaded
    \/ ChangeTimeRange
    \/ ChangeTab
    \/ SomeFetchResolved
    \/ SomeFetchRejected

InitTicks == TicksInit /\ tz = 0 /\ FetchIdle /\ FeesIdle /\ ReconIdle /\ PageIdle

SpecTicks == InitTicks /\ [][TicksNext]_vars

InitTicksRaw == TicksRawInit /\ tz = 0 /\ FetchIdle /\ FeesIdle /\ ReconIdle /\ PageIdle

SpecTicksRaw == InitTicksRaw /\ [][TicksNext]_vars

InitRecon == ReconInit /\ FetchIdle /\ FeesIdle /\ TicksIdle /\ PageIdle

SpecRecon == InitRecon /\ [][ReconNext]_vars

InitReconRaw == ReconRawInit /\ FetchIdle /\ FeesIdle /\ TicksIdle /\ PageIdle

SpecReconRaw == InitReconRaw /\ [][ReconNext]_vars

InitFees == FeesInit /\ FetchIdle /\ ReconIdle /\ TicksIdle /\ PageIdle

SpecFees == InitFees /\ [][FeesNext]_vars

InitFeesRaw == FeesRawInit /\ FetchIdle /\ ReconIdle /\ TicksIdle /\ PageIdle

SpecFeesRaw == InitFeesRaw /\ [][FeesRawNext]_vars

InitFetch == FetchInit /\ tz = 0 /\ FeesIdle /\ ReconIdle /\ TicksIdle /\ PageIdle

SpecFetch == InitFetch /\ [][FetchNext]_vars

InitPage == PageInit /\ FetchIdle /\ FeesIdle /\ ReconIdle /\ TicksIdle

SpecPage == InitPage /\ [][PageNext]_vars

(***************************************************************************)
(* Claims about fetchAllSwapEvents (checked under SpecFetch).              *)
(***************************************************************************)
LastTs(page) == page[Len(page)].timestamp

\* The pool's events the contract promises: timestamp >= startTime, ascending.
Wanted == SelectSeq(pool, LAMBDA e : e.timestamp >= startTime)

\* maxBatches x batchSize
RecordCap == maxBatches * batchSize

AllPagesFull == \A i \in 1..Len(pages) : Len(pages[i]) = batchSize

\* No page ends with the timestamp held in lastTimestamp when it arrives:
\* 0 before the first page, the last timestamp of the preceding page after.
GuardNeverFired ==
    \A i \in 1..Len(pages) :
        Len(pages[i]) > 0 =>
            LastTs(pages[i]) # (IF i = 1 THEN 0 ELSE LastTs(pages[i - 1]))

\* C3: against a service that honours filter, order and limit, the call
\* returns all the pool's events with timestamp >= startTime, each once, in
\* ascending order, leaving events out only when the cap of
\* maxBatches x batchSize records is reached.
C3_ReturnsAllEvents ==
    (fpc = "done" /\ service = "honest") => result.events = Take(Wanted, RecordCap)

\* C4 (as claimed): when every page the service returns holds exactly
\* batchSize records, the service is called exactly maxBatches times and
\* exactly maxBatches x batchSize records are returned.
C4_FullPagesReachCap ==
    (fpc = "done" /\ AllPagesFull) =>
        (calls = maxBatches /\ Len(result.events) = RecordCap)

\* C4 (amended): the same, when in addition no page ends with the timestamp
\* the stall guard compares it with.
C4_FullFreshPagesReachCap ==
    (fpc = "done" /\ AllPagesFull /\ GuardNeverFired) =>
        (calls = maxBatches /\ Len(result.events) = RecordCap)

C4_Witness ==
    /\ fpc = "done"
    /\ service = "mock"
    /\ AllPagesFull
    /\ GuardNeverFired
    /\ maxBatches = 3
    /\ batchSize = 2
    /\ calls = 3
    /\ Len(result.events) = 6

\* C5 (as claimed): a full first page followed by a second page of fewer
\* than batchSize records ends the fetch after exactly two calls, and the
\* result is the first page followed by the second.
C5_ShortSecondPageEnds ==
    (Len(pages) >= 2 /\ Len(pages[1]) = batchSize /\ Len(pages[2]) < batchSize) =>
        /\ calls = 2
        /\ fpc = "done" => result.events = pages[1] \o pages[2]

\* C5 (amended): the same, when the short second page is empty or ends with
\* a timestamp other than the one the first page ended with.
C5_ShortFreshSecondPageEnds ==
    (/\ Len(pages) >= 2
     /\ Len(pages[1]) = batchSize
     /\ Len(pages[2]) < batchSize
     /\ (Len(pages[2]) = 0 \/ LastTs(pages[2]) # LastTs(pages[1]))) =>
        /\ calls = 2
        /\ fpc = "done" => result.events = pages[1] \o pages[2]

C5_Witness ==
    /\ fpc = "done"
    /\ maxBatches = 3
    /\ batchSize = 2
    /\ Len(pages) = 2
    /\ Len(pages[1]) = 2
    /\ Len(pages[2]) = 1
    /\ calls = 2
    /\ Len(result.events) = 3
    /\ result.events = pages[1] \o pages[2]

\* C6: when the k-th page request fails, no further request is issued, the
\* call fails with the error of that request, and the caller is handed no
\* array: the events of pages 1..k-1 are lost to it.
C6_FailureAbortsFetch ==
    (rejected # NoRejection) =>
        /\ fpc = "failed"
        /\ thrown = rejected.error
        /\ result = NoResult
        /\ calls = rejected.call
        /\ Len(pages) = rejected.call - 1

C6_Witness ==
    /\ fpc = "failed"
    /\ rejected # NoRejection
    /\ rejected.call = 3
    /\ Len(allEvents) = 4
    /\ thrown = "GraphQLError"
    /\ result = NoResult

\* C7: when the loop ends on the page count alone (hasMoreData still true:
\* no empty, stalled or short page was seen), the array returned holds
\* exactly maxBatches x batchSize records.
C7_CapStopHasCapLength ==
    (fpc = "done" /\ hasMoreData /\ batchCount >= maxBatches) =>
        Len(result.events) = RecordCap

C7_Witness ==
    /\ fpc = "done"
    /\ hasMoreData
    /\ batchCount = maxBatches
    /\ maxBatches = 2
    /\ service = "honest"
    /\ Len(Wanted) > Len(result.events)
    /\ Len(result.events) = 2 * batchSize

(***************************************************************************)
(* Claims about calculateDailyFees and aggregateByPeriod (under SpecFees). *)
(***************************************************************************)
RECURSIVE SumSeq(_)
SumSeq(s) == IF s = <<>> THEN 0 ELSE s[1] + SumSeq(Tail(s))

\* The swaps handed in that fall on local calendar day d.
SwapsOnDay(d) == SelectSeq(feeSwaps, LAMBDA w : LocalDay(w.timestamp) = d)

\* Those of them that carry a timestamp and an amount.
CountedSwapsOnDay(d) ==
    SelectSeq(feeSwaps, LAMBDA w : /\ LocalDay(w.timestamp) = d
                                   /\ w.timestamp # 0
                                   /\ w.amountUSD # 0)

BucketsOfDay(d) == {i \in 1..Len(dailyFees) : LocalDay(dailyFees[i].timestamp) = d}

\* C8 (as claimed): no swaps give no buckets; otherwise there is exactly one
\* bucket per calendar day found among the swaps handed in, and its count is
\* the number of those swaps on that day.
C8_OneBucketPerInputDay ==
    feesPc # "input" =>
        LET days == {LocalDay(feeSwaps[i].timestamp) : i \in 1..Len(feeSwaps)}
        IN /\ feeSwaps = <<>> => dailyFees = <<>>
           /\ Len(dailyFees) = Cardinality(days)
           /\ \A d \in days :
                /\ Cardinality(BucketsOfDay(d)) = 1
                /\ \A i \in BucketsOfDay(d) :
                     dailyFees[i].count = Len(SwapsOnDay(d))

\* C8 (amended): the same, counting only the swaps whose timestamp and
\* amountUSD are both other than zero.
C8_OneBucketPerCountedDay ==
    feesPc # "input" =>
        LET counted == {i \in 1..Len(feeSwaps) :
                           feeSwaps[i].timestamp # 0 /\ feeSwaps[i].amountUSD # 0}
            days == {LocalDay(feeSwaps[i].timestamp) : i \in counted}
        IN /\ feeSwaps = <<>> => dailyFees = <<>>
           /\ Len(dailyFees) = Cardinality(days)
           /\ \A d \in days :
                /\ Cardinality(BucketsOfDay(d)) = 1
                /\ \A i \in BucketsOfDay(d) :
                     dailyFees[i].count = Len(CountedSwapsOnDay(d))

C8_Witness ==
    /\ feesPc = "daily"
    /\ Len(feeSwaps) = 3
    /\ \A i \in 1..3 : feeSwaps[i].amountUSD # 0 /\ feeSwaps[i].timestamp # 0
    /\ feeSwaps[1].timestamp # feeSwaps[2].timestamp
    /\ \A i \in 1..3 : LocalDay(feeSwaps[i].timestamp) = LocalDay(feeSwaps[1].timestamp)
    /\ Len(dailyFees) = 1
    /\ dailyFees[1].count = 3

\* C9: in every bucket volumeUSD is the sum of |amountUSD| over the day's
\* swaps and feeUSD is that sum times feeTier / 1,000,000 (held here in
\* 10^-6 USD), so that neither is negative.
C9_VolumeIsSumOfMagnitudes ==
    feesPc # "input" =>
        \A i \in 1..Len(dailyFees) :
            LET swaps == CountedSwapsOnDay(LocalDay(dailyFees[i].timestamp))
                volume == SumSeq([k \in 1..Len(swaps) |-> Abs(swaps[k].amountUSD)])
            IN /\ dailyFees[i].volumeUSD = volume
               /\ dailyFees[i].feeUSD = volume * feeTier
               /\ dailyFees[i].volumeUSD >= 0
               /\ dailyFees[i].feeUSD >= 0

\* The Monday on or before local day d, and the first day of d's month.
MondayOnOrBefore(d) == CHOOSE m \in (d - 6)..d : GetDay(m) = 1
FirstOfMonth(d) == d - (CivilFromDays(d).date - 1)

\* The day that starts the week or month of a row of the daily series.
BucketStart(row) ==
    IF periodType = "week" THEN MondayOnOrBefore(LocalDay(row.timestamp))
    ELSE FirstOfMonth(LocalDay(row.timestamp))

DaysInBucket(b) == SelectSeq(dailyFees, LAMBDA row : BucketStart(row) = b)

\* C10: with 'week' or 'month' every day of the daily series goes into the
\* one bucket of the Monday on or before it (of day 1 of its month); each
\* bucket is one output row, stamped with midnight of the day that starts
\* it and holding the sums of its days, so that the totals of feeUSD,
\* volumeUSD and count are kept; the output ascends by timestamp.
C10_PeriodBuckets ==
    (feesPc = "aggregated" /\ periodType \in {"week", "month"}) =>
        LET buckets == {BucketStart(dailyFees[i]) : i \in 1..Len(dailyFees)}
            RowsOf(b) == {j \in 1..Len(periodFees) :
                             periodFees[j].timestamp = b * SecondsPerDay}
        IN /\ Len(periodFees) = Cardinality(buckets)
           /\ \A b \in buckets :
                LET days == DaysInBucket(b)
                IN /\ Cardinality(RowsOf(b)) = 1
                   /\ \A j \in RowsOf(b) :
                        /\ periodFees[j].feeUSD =
                             SumSeq([k \in 1..Len(days) |-> days[k].feeUSD])
                        /\ periodFees[j].volumeUSD =
                             SumSeq([k \in 1..Len(days) |-> days[k].volumeUSD])
                        /\ periodFees[j].count =
                             SumSeq([k \in 1..Len(days) |-> days[k].count])
           /\ SumSeq([j \in 1..Len(periodFees) |-> periodFees[j].feeUSD])
                = SumSeq([i \in 1..Len(dailyFees) |-> dailyFees[i].feeUSD])
           /\ SumSeq([j \in 1..Len(periodFees) |-> periodFees[j].volumeUSD])
                = SumSeq([i \in 1..Len(dailyFees) |-> dailyFees[i].volumeUSD])
           /\ SumSeq([j \in 1..Len(periodFees) |-> periodFees[j].count])
                = SumSeq([i \in 1..Len(dailyFees) |-> dailyFees[i].count])
           /\ \A j \in 1..(Len(periodFees) - 1) :
                periodFees[j].timestamp < periodFees[j + 1].timestamp

\* Saturday 31 January, Sunday 1 February and Monday 2 February 1970: two
\* weeks (from 26 January and from 2 February).
C10_Witness ==
    /\ feesPc = "aggregated"
    /\ periodType = "week"
    /\ tz = 0
    /\ Len(dailyFees) = 3
    /\ GetDay(LocalDay(dailyFees[2].timestamp)) = 0
    /\ Len(periodFees) = 2
    /\ periodFees[1].count = 2
    /\ periodFees[1].timestamp = 25 * SecondsPerDay
    /\ periodFees[2].timestamp = 32 * SecondsPerDay

(***************************************************************************)
(* Claims about the reconstructed series (SpecRecon).                      *)
(***************************************************************************)
InWindow(events) == SelectSeq(events, LAMBDA e : e.timestamp >= StartTimestamp(now))

\* C1: the series the reconstruction returns (processEventsIntoMap, then
\* combineDataWithFees, then fillMissingDates) is strictly ascending by
\* timestamp, holds at most one row per calendar day, and any two
\* consecutive rows are exactly one calendar day apart.
C1_SeriesIsGapFreeAndAscending ==
    rpc = "filled" =>
        /\ \A i \in 1..(Len(series) - 1) :
              /\ series[i].timestamp < series[i + 1].timestamp
              /\ LocalDay(series[i + 1].timestamp) = LocalDay(series[i].timestamp) + 1
        /\ \A i, j \in 1..Len(series) :
              LocalDay(series[i].timestamp) = LocalDay(series[j].timestamp) => i = j

\* A series in which the fill added at least one day between days that
\* events of both kinds had written.
C1_Witness ==
    /\ rpc = "filled"
    /\ Len(InWindow(liquidityEvents)) >= 1
    /\ Len(InWindow(swapEvents)) >= 1
    /\ Len(dailyDataPoints) >= 3
    /\ Len(series) > Len(dailyDataPoints)

\* C2: liquidity and tvlUSD are never below zero in any row of the
\* reconstructed series.
C2_LiquidityAndTvlNeverNegative ==
    rpc = "filled" =>
        \A i \in 1..Len(series) : series[i].liquidity >= 0 /\ series[i].tvlUSD >= 0

(***************************************************************************)
(* Claims about the tick table and the depth chart (SpecTicks).            *)
(***************************************************************************)
\* The total liquidity of the positions at the given places of the list.
LiquidityOfPositions(places) ==
    LET RECURSIVE Total(_)
        Total(k) == IF k = 0 THEN 0
                    ELSE Total(k - 1) + (IF k \in places THEN positions[k].liquidity ELSE 0)
    IN Total(Len(positions))

\* The places of the positions whose lower tick, or upper tick, is t, and of
\* those that hold t in range.
LowerAt(t) == {k \in 1..Len(positions) : positions[k].tickLower = t}
UpperAt(t) == {k \in 1..Len(positions) : positions[k].tickUpper = t}
InRangeAt(t) ==
    {k \in 1..Len(positions) : positions[k].tickLower <= t /\ t < positions[k].tickUpper}

\* C11: at every tick t of the table generateTicksFromPositions returns,
\* liquidityNet is the liquidity of the non-zero positions whose lower tick
\* is t less that of those whose upper tick is t, and liquidityGross is the
\* liquidity of the positions having t for a boundary; a tick no position
\* touches has both at 0.
C11_NetAndGrossPerTick ==
    (tkpc # "input" /\ positions # <<>>) =>
        \A i \in 1..Len(tickData) :
            LET t == tickData[i].tickIdx
            IN /\ tickData[i].liquidityNet =
                    LiquidityOfPositions(LowerAt(t)) - LiquidityOfPositions(UpperAt(t))
               /\ tickData[i].liquidityGross =
                    LiquidityOfPositions(LowerAt(t) \cup UpperAt(t))

\* A table where one position ends at the tick another starts from, that
\* tick lying off the grid of the window.
C11_Witness ==
    /\ tkpc = "ticks"
    /\ \E i, j \in 1..Len(positions) :
          /\ positions[i].liquidity # 0
          /\ positions[j].liquidity # 0
          /\ positions[i].tickUpper = positions[j].tickLower
          /\ \E k \in 1..Len(tickData) :
                /\ tickData[k].tickIdx = positions[j].tickLower
                /\ tickData[k].liquidityNet < 0
                /\ tickData[k].tickIdx % TickSpacingOf(poolInfo) # 0

\* C12: at every tick t of the sorted table of the depth chart, the running
\* active liquidity is the total liquidity of the positions with
\* tickLower <= t < tickUpper.
C12_ActiveLiquidityIsInRangeLiquidity ==
    tkpc = "processed" =>
        \A i \in 1..Len(processedTicks) :
            LET t == processedTicks[i].tickIdx
            IN processedTicks[i].liquidityActive =
                 LiquidityOfPositions(InRangeAt(t))

\* C13: with no positions the builder returns the 101 ticks
\* floor(currentTick / tickSpacing) * tickSpacing + i * tickSpacing,
\* i in -50..50, each with zero net and gross liquidity.
C13_EmptyPositionsGiveScaffold ==
    (tkpc # "input" /\ positions = <<>>) =>
        /\ Len(tickData) = 2 * RangeSize + 1
        /\ \A k \in 1..Len(tickData) :
              /\ tickData[k].tickIdx =
                    (CurrentTickOf(poolInfo) \div TickSpacingOf(poolInfo))
                        * TickSpacingOf(poolInfo)
                    + (k - RangeSize - 1) * TickSpacingOf(poolInfo)
              /\ tickData[k].liquidityNet = 0
              /\ tickData[k].liquidityGross = 0

\* The in-window liquidity events in the order the loop replays them, and
\* the running state after the first k of them.
RelevantLiquidityEvents == RelevantEvents(SortByTimestamp(liquidityEvents), now)

RunAfter(k) ==
    ReplayLiquidityEvents(InitialRun(poolData, now),
                          Take(RelevantLiquidityEvents, k), poolData)

\* The k-th replayed event adds L and the next one removes L on the same
\* calendar day.
IsRoundTripAt(k) ==
    LET add == RelevantLiquidityEvents[k]
        remove == RelevantLiquidityEvents[k + 1]
    IN /\ add.hasLiquidityDelta /\ add.liquidityDelta > 0
       /\ remove.hasLiquidityDelta /\ remove.liquidityDelta = -add.liquidityDelta
       /\ LocalDay(add.timestamp) = LocalDay(remove.timestamp)

RowOfDay(map, t) == map[MapIndex(map, DateKey(t))].value

\* C14: an addition of L immediately followed, on the same calendar day, by
\* a removal of L leaves the running liquidity at its value before the two
\* events, and the snapshot of that day shows that value; when nothing is
\* replayed after the pair, so does the row of the map returned.
C14_AddThenRemoveRestoresLiquidity ==
    rpc \in {"mapped", "combined", "filled"} =>
        \A k \in 1..(Len(RelevantLiquidityEvents) - 1) :
            IsRoundTripAt(k) =>
                LET before == RunAfter(k - 1).currentLiquidity
                    after == RunAfter(k + 1)
                    day == RelevantLiquidityEvents[k + 1].timestamp
                IN /\ after.currentLiquidity = before
                   /\ RowOfDay(after.dateMap, day).liquidity = FormatLiquidity(before)
                   /\ k + 1 = Len(RelevantLiquidityEvents) =>
                         RowOfDay(dateMap, day).liquidity = FormatLiquidity(before)

\* A replay that held such a pair, on a day after the start of the window.
C14_Witness ==
    /\ rpc = "mapped"
    /\ \E k \in 1..(Len(RelevantLiquidityEvents) - 1) :
          /\ IsRoundTripAt(k)
          /\ LocalDay(RelevantLiquidityEvents[k].timestamp)
                > LocalDay(StartTimestamp(now))
          /\ RunAfter(k).currentLiquidity > 0

\* C15: without liquidity events and without swaps the reconstruction
\* returns exactly one row, whose liquidity, TVL, tick and price root are
\* the current values of the pool metadata.
C15_NoEventsRowIsPoolSnapshot ==
    (rpc = "filled" /\ liquidityEvents = <<>> /\ swapEvents = <<>>) =>
        /\ Len(series) = 1
        /\ series[1].liquidity = FormatLiquidity(ToNumber(poolData.liquidity))
        /\ series[1].tvlUSD = ToNumber(poolData.totalValueLockedUSD)
        /\ series[1].tick = ToNumber(poolData.tick)
        /\ series[1].sqrtPrice = ToNumber(poolData.sqrtPrice)

\* C17: the series runs up to the current day: its last row is the row of
\* the calendar day of "now", however old the latest event is.
C17_SeriesEndsToday ==
    rpc = "filled" =>
        /\ series # <<>>
        /\ LocalDay(series[Len(series)].timestamp) = LocalDay(now)

\* The sum of the liquidityDelta of the in-window liquidity events that
\* fall on local calendar day d or before.
DeltaUpToDay(d) ==
    LET RECURSIVE Total(_)
        Total(k) ==
            IF k = 0 THEN 0
            ELSE Total(k - 1)
                 + (IF /\ RelevantLiquidityEvents[k].hasLiquidityDelta
                       /\ LocalDay(RelevantLiquidityEvents[k].timestamp) <= d
                    THEN RelevantLiquidityEvents[k].liquidityDelta ELSE 0)
    IN Total(Len(RelevantLiquidityEvents))

\* C19: the liquidity of the row of day d is the sum of the liquidityDelta
\* of the in-window liquidity events of day d or before, over 10^6: no row
\* shows an event that comes after its day.
C19_RowLiquidityIsSumUpToItsDay ==
    rpc = "filled" =>
        \A i \in 1..Len(series) :
            series[i].liquidity =
                FormatLiquidity(DeltaUpToDay(LocalDay(series[i].timestamp)))

\* The in-window swaps that report a tick, in the order they are replayed.
RelevantTickSwaps ==
    SelectSeq(RelevantEvents(SortByTimestamp(swapEvents), now), LAMBDA w : w.hasTick)

\* The last of them that falls on day d or before (0 when there is none).
LatestSwapUpToDay(d) ==
    LET upTo == {k \in 1..Len(RelevantTickSwaps) :
                    LocalDay(RelevantTickSwaps[k].timestamp) <= d}
    IN IF upTo = {} THEN 0 ELSE CHOOSE k \in upTo : \A l \in upTo : l <= k

\* C20: a row on or after the day of the first in-window swap carries the
\* tick and sqrtPrice of the latest swap of its day or before; the tick and
\* price of the pool metadata show only in rows before the first swap.
C20_RowTickIsLatestSwapUpToItsDay ==
    rpc = "filled" =>
        \A i \in 1..Len(series) :
            LET k == LatestSwapUpToDay(LocalDay(series[i].timestamp))
            IN IF k = 0
               THEN /\ series[i].tick = ToNumber(poolData.tick)
                    /\ series[i].sqrtPrice = ToNumber(poolData.sqrtPrice)
               ELSE /\ series[i].tick = ToNumber(RelevantTickSwaps[k].tick)
                    /\ series[i].sqrtPrice = ToNumber(RelevantTickSwaps[k].sqrtPriceX96)

(***************************************************************************)
(* Further claims about calculateDailyFees and aggregateByPeriod.          *)
(***************************************************************************)
\* A swap whose timestamp and amountUSD are numbers other than zero.
IsWellFormedSwap(w) ==
    /\ w.timestamp # 0 /\ w.timestamp # NaN
    /\ w.amountUSD # 0 /\ w.amountUSD # NaN

\* C16: a swap whose timestamp or amountUSD is zero or spells no number
\* adds to no bucket and creates none: the result is the one the other
\* swaps of the batch give alone.
C16_MalformedSwapsAreSkipped ==
    feesPc # "input" =>
        dailyFees = CalculateDailyFees(SelectSeq(feeSwaps, IsWellFormedSwap), feeTier)

\* C18: with 'day' aggregateByPeriod returns its input, row for row, the
\* empty series included.
C18_DayAggregationIsIdentity ==
    (feesPc = "aggregated" /\ periodType = "day") => periodFees = dailyFees

\* A daily series of two days or more, away from UTC, passed through 'day'.
C18_Witness ==
    /\ feesPc = "aggregated"
    /\ periodType = "day"
    /\ Len(dailyFees) >= 2
    /\ tz # 0

(***************************************************************************)
(* Further claims about the reconstructed series (SpecRecon).              *)
(***************************************************************************)
\* The swaps handed to the hook that fall on local calendar day d and carry
\* an amount.
ReconSwapsOnDay(d) ==
    SelectSeq(swapEvents, LAMBDA w : /\ w.timestamp # 0
                                     /\ w.amountUSD # 0
                                     /\ LocalDay(w.timestamp) = d)

\* C21: in every row swapCount, volumeUSD and dailyFeeUSD are the count,
\* the volume (sum of |amountUSD|) and the fee (volume times feeTier /
\* 1,000,000, held in 10^-6 USD) of the swaps of the row's day, 0 on days
\* without swaps; every in-window swap that carries an amount falls on the
\* day of exactly one row.
C21_RowFeesAreThoseOfItsDay ==
    rpc = "filled" =>
        /\ \A i \in 1..Len(series) :
              LET swaps == ReconSwapsOnDay(LocalDay(series[i].timestamp))
                  volume == SumSeq([k \in 1..Len(swaps) |-> Abs(swaps[k].amountUSD)])
              IN /\ series[i].swapCount = Len(swaps)
                 /\ series[i].volumeUSD = volume
                 /\ series[i].dailyFeeUSD = volume * poolData.feeTier
        /\ \A k \in 1..Len(swapEvents) :
              (swapEvents[k].timestamp >= StartTimestamp(now)
                    /\ swapEvents[k].amountUSD # 0) =>
                 Cardinality({i \in 1..Len(series) :
                                 LocalDay(series[i].timestamp)
                                    = LocalDay(swapEvents[k].timestamp)}) = 1


(***************************************************************************)
(* Further claims about fetchAllSwapEvents (under SpecFetch).              *)
(***************************************************************************)
RECURSIVE Flatten(_, _)
\* The first n pages, one after the other.
Flatten(ps, n) == IF n = 0 THEN <<>> ELSE Flatten(ps, n - 1) \o ps[n]

\* Page i is not the first and ends with the timestamp page i-1 ended with.
RepeatsLastTimestamp(i) ==
    /\ i >= 2
    /\ i <= Len(pages)
    /\ Len(pages[i]) > 0
    /\ Len(pages[i - 1]) > 0
    /\ LastTs(pages[i]) = LastTs(pages[i - 1])

\* C22: when a page ends with the timestamp the previous page ended with,
\* the fetch stops there: that page is not appended, no further request is
\* issued, and the call completes normally with the events of the pages
\* before it.
C22_RepeatedLastTimestampStopsFetch ==
    \A i \in 2..Len(pages) :
        RepeatsLastTimestamp(i) =>
            /\ Len(pages) = i
            /\ calls = i
            /\ fpc = "done"
            /\ thrown = NoError
            /\ result = Resolved(Flatten(pages, i - 1))

C22_Witness ==
    /\ RepeatsLastTimestamp(3)
    /\ LastTs(pages[3]) = 0
    /\ maxBatches = 3
    /\ batchSize = 2
    /\ Len(pages[3]) = 2
    /\ fpc = "done"
    /\ Len(result.events) = 4

\* C23: the stall guard never fires on the first page: whatever its
\* timestamps, 0 included, a non-empty first page is appended.
C23_FirstPageIsAppended ==
    (Len(pages) >= 1 /\ Len(pages[1]) > 0) =>
        (Len(allEvents) >= Len(pages[1]) /\ Take(allEvents, Len(pages[1])) = pages[1])

\* The requests the service has not answered yet.
Outstanding == Len(requests) - Len(pages) - (IF rejected = NoRejection THEN 0 ELSE 1)

\* C24: at most one page request is outstanding at any time; request n+1 is
\* issued only after the response to request n was received and processed
\* (appended), and its startTime is the timestamp of the last record of
\* page n plus one.
C24_OneRequestAtATime ==
    /\ Len(requests) = calls
    /\ Outstanding \in {0, 1}
    /\ (Outstanding = 1) <=> (fpc = "await")
    /\ \A n \in 1..(Len(requests) - 1) :
          /\ Len(pages) >= n
          /\ Len(pages[n]) > 0
          /\ Len(allEvents) >= Len(Flatten(pages, n))
          /\ Take(allEvents, Len(Flatten(pages, n))) = Flatten(pages, n)
          /\ requests[n + 1].startTime = LastTs(pages[n]) + 1

C24_Witness ==
    /\ fpc = "await"
    /\ Len(requests) = 3
    /\ Len(pages) = 2
    /\ requests[2].startTime = 2
    /\ requests[3].startTime = 1
    /\ Outstanding = 1


\* The fetcher with its scheduling: a request the service holds is answered
\* (resolved or rejected), the 100 ms timer fires, and the function's own
\* steps are taken.
SpecFetchLive == InitFetch /\ [][FetchNext]_vars /\ WF_vars(FetchNext)

\* C25: whatever pages the service answers with (overlapping, unordered,
\* never empty), as long as every request is answered the call terminates,
\* having issued at most maxBatches page requests.
C25_TerminatesWithinMaxBatches ==
    /\ [](calls <= maxBatches)
    /\ <>(fpc \in {"done", "failed"})

C25_Witness ==
    /\ fpc = "done"
    /\ service = "mock"
    /\ maxBatches = 3
    /\ calls = 3
    /\ batchSize = 2
    /\ AllPagesFull
    /\ LastTs(pages[1]) = 1
    /\ LastTs(pages[2]) = 0
    /\ LastTs(pages[3]) = 1
    /\ pages[1][1].timestamp = 1
    /\ hasMoreData


(***************************************************************************)
(* Claims about the pool page's bulk fetches (under SpecPage).             *)
(***************************************************************************)
NoFetchRunning == \A k \in 1..Len(fetches) : fetches[k].status # "running"

HasMalformedDelta ==
    \E k \in 1..Len(liquidityEvents) : BigIntThrows(liquidityEvents[k])

\* C27: a liquidity event whose liquidityDelta does not spell an integer
\* does not abort the reconstruction: the hook still returns a series.
C27_MalformedDeltaDoesNotAbort ==
    HasMalformedDelta => rpc \in {"input", "mapped", "combined", "filled"}


(***************************************************************************)
(* Further claims about generateTicksFromPositions.                        *)
(***************************************************************************)
\* Some position sent the function into a catch block.
FellBack == \E k \in 1..Len(positions) : UsesFallback(positions[k])

\* The fields of a row of the tick table.
TickFields == {"tickIdx", "liquidityNet", "liquidityGross"}

\* C28 (under SpecTicksRaw): whenever generateTicksFromPositions falls back
\* to floating-point addition, the fallback is observable: something is
\* logged, or a row of the table carries a flag.
C28_FallbackIsReported ==
    (tkpc # "input" /\ FellBack) =>
        \/ consoleOutput # <<>>
        \/ \E i \in 1..Len(tickData) : DOMAIN tickData[i] # TickFields

\* The tick indices at which some position with liquidity begins or ends.
BoundaryTicks ==
    {positions[k].tickLower : k \in {j \in 1..Len(positions) : positions[j].liquidity # 0}}
        \cup {positions[k].tickUpper :
                 k \in {j \in 1..Len(positions) : positions[j].liquidity # 0}}

\* C29 (under SpecTicks): for a non-empty position list the table is
\* strictly ascending by tick index, so holds no tick index twice, and has a
\* row for the tickLower and the tickUpper of every position with liquidity,
\* however far from the current tick.
C29_TableAscendingAndComplete ==
    (tkpc # "input" /\ Len(positions) > 0) =>
        /\ \A i \in 1..(Len(tickData) - 1) : tickData[i].tickIdx < tickData[i + 1].tickIdx
        /\ \A t \in BoundaryTicks : \E i \in 1..Len(tickData) : tickData[i].tickIdx = t

C29_Witness ==
    /\ tkpc = "ticks"
    /\ Len(positions) = 2
    /\ poolInfo.tick = 130
    /\ BoundaryTicks = {0, 6000, 100, 200}
    /\ Len(tickData) = 104
    /\ tickData[Len(tickData)].tickIdx = 6000
    /\ \E i \in 1..Len(tickData) : tickData[i].tickIdx = 100


(***************************************************************************)
(* Order of the input arrays (under SpecRecon).                            *)
(***************************************************************************)
\* liquidityHistoryUtils.ts lines 22-46: the hook as a function of its inputs
UseLiquidityHistory(liqEvents, swaps, pd, nowSec) ==
    LET sortedLiquidityEvents == SortByTimestamp(liqEvents)
        sortedSwapEvents == SortByTimestamp(swaps)
        map == ProcessEventsIntoMap(sortedLiquidityEvents, sortedSwapEvents, pd, nowSec)
        points == CombineDataWithFees(SortByTimestamp(MapValues(map)),
                                      CalculateDailyFees(sortedSwapEvents, pd.feeTier))
    IN FillMissingDates(points)

\* The orders an array of n elements can be handed in.
Orders(n) == {p \in [1..n -> 1..n] : \A i, j \in 1..n : p[i] = p[j] => i = j}

Reordered(s, p) == [i \in 1..Len(s) |-> s[p[i]]]

\* C30: the series depends on the sets of input events only: handed the
\* same liquidity events and swap events in any other order, the hook
\* returns the same rows, also when events share a timestamp.
C30_SeriesIndependentOfInputOrder ==
    rpc = "filled" =>
        \A p \in Orders(Len(liquidityEvents)) : \A q \in Orders(Len(swapEvents)) :
            UseLiquidityHistory(Reordered(liquidityEvents, p),
                                Reordered(swapEvents, q), poolData, now) = series

====
